---- MODULE Spec2Model ----
(***************************************************************************)
(* Invoice processing pipeline: document ingestion, field extraction,      *)
(* validation, write decision and persistence.                             *)
(*                                                                         *)
(* Two entry programs drive the same agents:                               *)
(*   - example_usage.py calls InvoiceProcessingOrchestrator.process_invoice *)
(*     (orchestrator.py), which runs the five stages in one call;          *)
(*   - app.py (the UI) calls the agents itself: "Analyze Invoice" runs     *)
(*     ingestion and extraction and stores them in the session state, the  *)
(*     verification form is shown, and "Approve & Save" runs validation,   *)
(*     decision and persistence on the submitted form.                     *)
(*                                                                         *)
(* The validator, the decision agent and the store are also called         *)
(* directly (AgentSpec, StoreSpec), and the store from several UI sessions *)
(* at once (SessionsSpec).                                                 *)
(*                                                                         *)
(* Python values are modelled as tagged records [type, s, n]; an optional  *)
(* value (None or a value) is a sequence of length 0 or 1.                 *)
(***************************************************************************)
EXTENDS Integers, Sequences, FiniteSets, TLC

VARIABLES
    entry,            \* which program runs: "script" (process_invoice), "ui" (app.py),
                      \* or a direct caller: "agents", "store", "sessions"
    pc,               \* position inside process_invoice
    file_path,        \* argument of the current process_invoice call
    raw_text,         \* local of process_invoice
    extracted_data,   \* local of process_invoice (optional)
    validation_result,\* local of process_invoice (optional)
    decision_result,  \* local of process_invoice (optional)
    pipeline_results, \* the dictionary process_invoice builds and returns
    returned,         \* TRUE when pipeline_results has been returned to the caller
    session,          \* st.session_state of the UI
    ui_outcome,       \* how the last UI handler ended
    form,             \* the verification form as submitted by the last approval
    calls,            \* agent calls made by the current run, in order
    dbFile,           \* contents of invoices_db.json
    now,              \* the clock datetime.now() reads; it ticks at every store call
    uuids,            \* number of uuid4() identifiers generated so far
    given,            \* the Field Mapping a direct caller of the agents holds
    history,          \* the direct calls to an agent or to the store, with what they returned
    writer            \* per concurrent write_invoice_to_db call: its position and locals

vars == << entry, pc, file_path, raw_text, extracted_data, validation_result,
           decision_result, pipeline_results, returned, session, ui_outcome,
           form, calls, dbFile, now, uuids, given, history, writer >>

\* the variables of the direct callers; the pipeline and the UI leave them alone
direct == << given, history, writer >>

-----------------------------------------------------------------------------
(* Bounds *)

\* at most MaxDocs documents are ingested in a behaviour
MaxDocs == 2

\* a run starts only while the store holds fewer than MaxRecords records
MaxRecords == 2

-----------------------------------------------------------------------------
(* Python values *)

None == << >>
Some(x) == << x >>

Null == [type |-> "NoneType", s |-> "", n |-> 0]
Absent == [type |-> "absent", s |-> "", n |-> 0]
Str(x) == [type |-> "str", s |-> x, n |-> 0]
Num(k) == [type |-> "number", s |-> "", n |-> k]
NaN == [type |-> "nan", s |-> "", n |-> 0]

\* decimal numerals that occur in the model, with the number each denotes
Numerals == {"150", "-5", "0"}

NumeralValue(t) ==
    CASE t = "150" -> 150
      [] t = "-5"  -> -5
      [] OTHER     -> 0

NumeralOf(k) ==
    CASE k = 150 -> "150"
      [] k = -5  -> "-5"
      [] OTHER   -> "0"

\* bool(v)
Truthy(v) ==
    CASE v.type = "NoneType" -> FALSE
      [] v.type = "absent"   -> FALSE
      [] v.type = "str"      -> v.s # ""
      [] v.type = "number"   -> v.n # 0
      [] OTHER               -> TRUE

\* v or w
PyOr(v, w) == IF Truthy(v) THEN v ELSE w

\* str(v), as a Python string
PyStr(v) ==
    CASE v.type = "str"      -> v.s
      [] v.type = "number"   -> NumeralOf(v.n)
      [] v.type = "nan"      -> "nan"
      [] OTHER               -> "None"

\* float(v): [ok |-> TRUE, val |-> number or nan] or [ok |-> FALSE] for
\* ValueError / TypeError
PyFloat(v) ==
    CASE v.type = "number" -> [ok |-> TRUE, val |-> v]
      [] v.type = "nan"    -> [ok |-> TRUE, val |-> v]
      [] v.type = "str" /\ v.s \in Numerals -> [ok |-> TRUE, val |-> Num(NumeralValue(v.s))]
      [] v.type = "str" /\ v.s = "nan"      -> [ok |-> TRUE, val |-> NaN]
      [] OTHER             -> [ok |-> FALSE, val |-> Null]

\* x <= 0 on floats: every comparison with nan is False
LeqZero(v) == v.type = "number" /\ v.n <= 0

\* dict.get(key): None for a key that is not in the dict
Get(d, key) == IF d[key].type = "absent" THEN Null ELSE d[key]

HasKey(d, key) == d[key].type # "absent"

-----------------------------------------------------------------------------
(* Field mappings.  A mapping is a record over the four invoice keys and   *)
(* "error"; a key that is not in the dict holds Absent.  shape is "dict"   *)
(* for a mapping and "int" for a JSON scalar returned in its place.        *)

Mapping(name, address, amount, date, err) ==
    [shape |-> "dict", biller_name |-> name, biller_address |-> address,
     total_amount |-> amount, due_date |-> date, error |-> err]

\* the all-null mapping with an error string (extraction_agent.py)
ErrorMapping(msg) == Mapping(Null, Null, Null, Null, Str(msg))

Scalar == [shape |-> "int", biller_name |-> Absent, biller_address |-> Absent,
           total_amount |-> Absent, due_date |-> Absent, error |-> Absent]

FieldKeys == {"biller_name", "biller_address", "total_amount", "due_date"}

\* the four invoice fields of a mapping, without the error key
Fields(d) == [k \in FieldKeys |-> d[k]]

-----------------------------------------------------------------------------
(* Agent 3: ValidationAgent (agents/validation_agent.py) *)

\* dateutil.parser.parse accepts these strings; it raises ValueError on the
\* others of the model ("" and "not-a-date") and TypeError on a non-string
ParseableDates == {"2025-03-01"}

_is_valid_date(v) == v.type = "str" /\ v.s \in ParseableDates

\* the list before the address requirement was relaxed
required_fields_WithAddress == << "biller_name", "biller_address", "total_amount" >>

\* line 33
required_fields == << "biller_name", "total_amount" >>

MissingMessage(field) ==
    CASE field = "biller_name"    -> "Missing required field: biller_name"
      [] field = "biller_address" -> "Missing required field: biller_address"
      [] OTHER                    -> "Missing required field: total_amount"

RECURSIVE RequiredErrors(_, _)
RequiredErrors(d, fields) ==
    IF fields = << >> THEN << >>
    ELSE (IF ~HasKey(d, Head(fields)) \/ d[Head(fields)] = Null
          THEN << MissingMessage(Head(fields)) >> ELSE << >>)
         \o RequiredErrors(d, Tail(fields))

AmountErrors(d) ==
    IF HasKey(d, "total_amount") /\ d.total_amount # Null
    THEN IF PyFloat(d.total_amount).ok
         THEN IF LeqZero(PyFloat(d.total_amount).val)
              THEN << "total_amount must be a positive number" >>
              ELSE << >>
         ELSE << "total_amount must be a valid number" >>
    ELSE << >>

DateErrors(d) ==
    IF HasKey(d, "due_date") /\ d.due_date # Null
    THEN IF ~_is_valid_date(d.due_date)
         THEN << "due_date must be a valid date format" >>
         ELSE << >>
    ELSE << >>

\* `field not in extracted_data` raises TypeError when extracted_data is an int
ValidateRaises(d) == d.shape = "int"

\* an errors list kept on the agent, so that a call starts from the errors
\* of the validate call before it
NewErrors_KeptBetweenCalls ==
    IF history # << >> /\ history[Len(history)].op = "validate"
    THEN history[Len(history)].verdict[1].errors
    ELSE << >>

\* line 30: `errors = []`, a fresh local list in every call
NewErrors == << >>

\* a validator whose status looks at the required fields only
validate_StatusFromRequiredFields(d) ==
    LET errors == NewErrors \o RequiredErrors(d, required_fields)
                  \o AmountErrors(d) \o DateErrors(d)
    IN  IF Len(RequiredErrors(d, required_fields)) = 0
        THEN [status |-> "valid", errors |-> errors]
        ELSE [status |-> "incomplete", errors |-> errors]

validate(d) ==
    LET errors == NewErrors \o RequiredErrors(d, required_fields)
                  \o AmountErrors(d) \o DateErrors(d)
    IN  IF Len(errors) = 0
        THEN [status |-> "valid", errors |-> << >>]
        ELSE [status |-> "incomplete", errors |-> errors]

-----------------------------------------------------------------------------
(* Agent 4: ToolDecisionAgent (agents/tool_decision_agent.py) *)

\* a decision that ignores the verdict
decide_AlwaysWrite(validation_result_, extracted_data_) ==
    [should_write |-> TRUE,
     reason |-> [text |-> "Invoice validation passed", errors |-> << >>],
     data_to_write |-> Some(extracted_data_)]

\* a decision that withholds the write only from the status "incomplete"
decide_WritesUnlessIncomplete(validation_result_, extracted_data_) ==
    IF validation_result_.status # "incomplete"
    THEN [should_write |-> TRUE,
          reason |-> [text |-> "Invoice validation passed", errors |-> << >>],
          data_to_write |-> Some(extracted_data_)]
    ELSE [should_write |-> FALSE,
          reason |-> [text |-> "Validation failed: ", errors |-> validation_result_.errors],
          data_to_write |-> None]

\* reason: the fixed text and, for a failed validation, the errors that
\* ', '.join appends to it
decide(validation_result_, extracted_data_) ==
    IF validation_result_.status = "valid"
    THEN [should_write |-> TRUE,
          reason |-> [text |-> "Invoice validation passed", errors |-> << >>],
          data_to_write |-> Some(extracted_data_)]
    ELSE [should_write |-> FALSE,
          reason |-> [text |-> "Validation failed: ", errors |-> validation_result_.errors],
          data_to_write |-> None]

-----------------------------------------------------------------------------
(* DatabaseTool (tools/database_tool.py).  The file holds a JSON list of   *)
(* records, or bytes that json.load rejects (corrupt).                     *)

EmptyDb == [corrupt |-> FALSE, invoices |-> << >>]

\* a tool that starts from an empty list in every call
_load_invoices_StartsEmpty(file) == << >>

\* FileNotFoundError and JSONDecodeError both yield []
_load_invoices(file) == IF file.corrupt THEN << >> ELSE file.invoices

\* open(db_path, 'w') + json.dump
_save_invoices(invoices) == [corrupt |-> FALSE, invoices |-> invoices]

\* open(db_path, 'w') truncated the file and json.dump did not complete
TruncatedDb == [corrupt |-> TRUE, invoices |-> << >>]

\* how the file system answers one write_invoice_to_db call
IoOutcomes == {"ok", "load_error", "save_open_error", "save_write_error"}

InvoiceRecord(invoice_data, invoices, t) ==
    [biller_name |-> invoice_data.biller_name,
     biller_address |-> invoice_data.biller_address,
     total_amount |-> invoice_data.total_amount,
     due_date |-> invoice_data.due_date,
     error |-> invoice_data.error,
     id |-> Len(invoices) + 1,
     created_at |-> t,
     status |-> "stored"]

DbFailure == [success |-> FALSE, message |-> "Error writing to database", invoice_id |-> None]

\* what the try block of one call raises ("none": nothing), in the order of
\* its statements: open(db_path, 'r') fails with an OSError other than
\* FileNotFoundError (line 75); ** on a value that is no mapping (line 41);
\* open(db_path, 'w') or json.dump fails (lines 84-85)
DbFault(invoice_data, io) ==
    IF io = "load_error" THEN "OSError"
    ELSE IF invoice_data.shape # "dict" THEN "TypeError"
    ELSE IF io \in {"save_open_error", "save_write_error"} THEN "OSError"
    ELSE "none"

\* an except clause for I/O errors only
DbCatches_OSErrorOnly(fault) == fault = "OSError"

\* line 59: `except Exception`
DbCatches(fault) == fault \in {"OSError", "TypeError"}

\* the call ended in an exception: there is no returned dictionary
NoResult == [success |-> FALSE, message |-> "", invoice_id |-> None]

\* result: the returned dictionary; file: invoices_db.json afterwards;
\* raised: an exception left the call
write_invoice_to_db(invoice_data, file, t, io) ==
    LET invoices == _load_invoices(file)
        invoice_record == InvoiceRecord(invoice_data, invoices, t)
        fault == DbFault(invoice_data, io)
    IN  IF fault = "none"
        THEN [result |-> [success |-> TRUE,
                          message |-> "Invoice successfully written to database",
                          invoice_id |-> Some(invoice_record.id)],
              file |-> _save_invoices(Append(invoices, invoice_record)),
              raised |-> FALSE]
        ELSE [result |-> IF DbCatches(fault) THEN DbFailure ELSE NoResult,
              file |-> IF fault = "OSError" /\ io = "save_write_error"
                       THEN TruncatedDb ELSE file,
              raised |-> ~DbCatches(fault)]

-----------------------------------------------------------------------------
(* Agent 2: ExtractionAgent (agents/extraction_agent.py).  The model call  *)
(* is external: a reply is what client.chat.completions.create does.       *)
(* value is optional.                                                      *)
(*   json          content is JSON text; value is what json.loads returns  *)
(*   wrapped       content is prose around one JSON object (value)         *)
(*   wrapped_bad   content has braces but the text between the first "{"   *)
(*                 and the last "}" is not JSON                            *)
(*   garbage       content has no JSON object at all                       *)
(*   no_content    content is None                                         *)
(*   error_credits the call raises with "402" / "credits" in its message   *)
(*   error_other   the call raises anything else                           *)

ReplyKinds == {"json", "wrapped", "wrapped_bad", "garbage", "no_content",
               "error_credits", "error_other"}

Reply(kind, value) == [kind |-> kind, value |-> value]

_parse_json_from_text(reply) ==
    IF reply.kind = "wrapped"
    THEN reply.value[1]
    ELSE ErrorMapping("Failed to parse JSON")

\* the second call, to openai/gpt-4o-mini, inside `except Exception`
ExtractFallback(reply2) ==
    IF reply2.kind = "json"
    THEN reply2.value[1]
    ELSE ErrorMapping("Fallback failed")

\* what the first try block raises ("none": nothing): the call itself
\* (line 67), json.loads on a content that is None (TypeError, line 79), or
\* json.loads on a text that is not JSON (JSONDecodeError, line 79)
ExtractFault(reply) ==
    CASE reply.kind = "json" -> "none"
      [] reply.kind \in {"wrapped", "wrapped_bad", "garbage"} -> "JSONDecodeError"
      [] reply.kind = "no_content" -> "TypeError"
      [] OTHER -> "APIError"

\* a handler for the errors of the model call only
ExtractCatches_ApiErrorsOnly(fault) == fault = "APIError"

\* line 96: `except Exception`, for what line 83 did not catch
ExtractCatches(fault) == fault \in {"APIError", "TypeError"}

\* a fallback that asks the cheaper model after every failed call
FallsBack_OnEveryError(reply) == reply.kind \in {"error_credits", "error_other"}

\* line 98: "402" or "credits" in the message of the exception
FallsBack(reply) == reply.kind = "error_credits"

\* replies: what the model calls of one extract invocation answer, in order
\* data: the returned value; llm_calls: how many model calls were made;
\* raised: an exception left the call
extract(replies) ==
    LET fault == ExtractFault(replies[1])
    IN  IF fault = "none"
        THEN [data |-> replies[1].value[1], llm_calls |-> 1, raised |-> FALSE]
        ELSE IF fault = "JSONDecodeError"
        THEN [data |-> _parse_json_from_text(replies[1]), llm_calls |-> 1, raised |-> FALSE]
        ELSE IF ~ExtractCatches(fault)
        THEN [data |-> ErrorMapping("uncaught"), llm_calls |-> 1, raised |-> TRUE]
        ELSE IF FallsBack(replies[1])
        THEN [data |-> ExtractFallback(replies[2]), llm_calls |-> 2, raised |-> FALSE]
        ELSE [data |-> ErrorMapping("model call failed"), llm_calls |-> 1, raised |-> FALSE]

-----------------------------------------------------------------------------
(* Agent 1: DocumentIngestionAgent (agents/document_ingestion_agent.py).   *)
(* A document is its file suffix, what the PDF text layer holds and what   *)
(* the OCR engine makes of its pages.                                      *)

InvoiceText == "Acme Co. Total: 150.00 Due: 2025-03-01"

\* str.strip() on the raw texts of the model
Strip(text) == IF text \in {"", " "} THEN "" ELSE text

Suffixes == {".pdf", ".PDF", ".png"}

\* text_layer: "text", "blank" (pages hold whitespace only), "unreadable"
\*      (no reader gets text out of it), "text_second" (PyMuPDF raises,
\*      PyPDF2 reads the text)
\* ocr: "text", "blank" (recognition yields whitespace), "empty" (yields ""),
\*      "unavailable" (no OCR engine)
Document(suffix, text_layer, ocr) == [suffix |-> suffix, text_layer |-> text_layer, ocr |-> ocr]

\* a comparison of the suffix as it is written
Lower_CaseSensitive(suffix) == suffix

\* line 151: suffix.lower()
Lower(suffix) == IF suffix = ".PDF" THEN ".pdf" ELSE suffix

_ocr_pdf(doc) ==
    CASE doc.ocr = "text"  -> InvoiceText
      [] doc.ocr = "blank" -> " "
      [] doc.ocr = "empty" -> ""
      [] OTHER             -> "No OCR engine available."

\* a reader without lines 182-183: a blank text layer is returned as it is
PdfExtraction_NoOcrOnBlank(doc) ==
    CASE doc.text_layer = "text" ->
            [text |-> InvoiceText, tried |-> << "PyMuPDF" >>]
      [] doc.text_layer = "blank" ->
            [text |-> "", tried |-> << "PyMuPDF" >>]
      [] doc.text_layer = "text_second" ->
            [text |-> InvoiceText, tried |-> << "PyMuPDF", "PyPDF2" >>]
      [] OTHER ->
            [text |-> _ocr_pdf(doc), tried |-> << "PyMuPDF", "PyPDF2", "ocr" >>]

\* lines 165-206: the text, and the strategies run, in order.  PyMuPDF reads
\* the text layer; recognition runs when the text it read is blank; when
\* PyMuPDF raises, PyPDF2 reads the text layer, and recognition runs when
\* that fails or reads nothing
PdfExtraction(doc) ==
    CASE doc.text_layer = "text" ->
            [text |-> InvoiceText, tried |-> << "PyMuPDF" >>]
      [] doc.text_layer = "blank" ->
            [text |-> _ocr_pdf(doc), tried |-> << "PyMuPDF", "ocr" >>]
      [] doc.text_layer = "text_second" ->
            [text |-> InvoiceText, tried |-> << "PyMuPDF", "PyPDF2" >>]
      [] OTHER ->
            [text |-> _ocr_pdf(doc), tried |-> << "PyMuPDF", "PyPDF2", "ocr" >>]

_extract_from_pdf(doc) == PdfExtraction(doc).text

_extract_from_image(doc) ==
    CASE doc.ocr = "text"        -> InvoiceText
      [] doc.ocr = "unavailable" -> "Tesseract OCR is not installed or not in PATH."
      [] OTHER                   -> "[No text extracted from image]"

\* Path(file_path) raises TypeError when file_path is not a path (None)
ProcessRaises(path) == path = None

\* process(file_path); the uuid4 identifier is the number of the draw
process(doc, uuid) ==
    IF Lower(doc.suffix) = ".pdf"
    THEN [document_id |-> uuid, raw_text |-> _extract_from_pdf(doc), source_type |-> "pdf"]
    ELSE [document_id |-> uuid, raw_text |-> _extract_from_image(doc), source_type |-> "image"]

-----------------------------------------------------------------------------
(* Inputs *)

\* an image has no text layer
Docs ==
    { d \in [suffix : Suffixes,
             text_layer : {"text", "blank", "unreadable", "text_second", "none"},
             ocr : {"text", "blank", "empty", "unavailable"}] :
        /\ (d.suffix = ".png") <=> (d.text_layer = "none")
        /\ (d.suffix = ".png") => (d.ocr # "empty")
        /\ (d.suffix = ".PDF") => (d.text_layer = "text" /\ d.ocr = "unavailable") }

\* the documents the pipeline runs are given: one per ingestion outcome
SampleDocs ==
    { Document(".pdf", "text", "unavailable"),
      Document(".pdf", "blank", "text"),
      Document(".pdf", "blank", "blank"),
      Document(".pdf", "blank", "empty"),
      Document(".pdf", "unreadable", "unavailable"),
      Document(".png", "none", "text"),
      Document(".png", "none", "blank") }

\* arguments of process_invoice: a document, or None in place of a path
Paths == {None} \cup {Some(d) : d \in SampleDocs}

\* what the model may put in its JSON answer
ModelMappings ==
    { Mapping(Str("Acme Co."), Null, Num(150), Str("2025-03-01"), Absent),
      Mapping(Null, Absent, Num(-5), Str("not-a-date"), Absent),
      Mapping(Str("Acme Co."), Str("1 Main St"), Num(150), Null, Absent),
      Mapping(Null, Null, Num(150), Str("2025-03-01"), Absent),
      Mapping(Str("Acme Co."), Null, NaN, Null, Absent),
      Mapping(Str("Acme Co."), Null, Str("abc"), Absent, Absent) }

Replies ==
    { Reply("json", Some(v)) : v \in ModelMappings \cup {Scalar} }
    \cup { Reply("wrapped", Some(Mapping(Str("Acme Co."), Null, Num(150), Str("2025-03-01"), Absent))) }
    \cup { Reply(k, None) : k \in ReplyKinds \ {"json", "wrapped"} }

\* the answers one extract invocation can meet: a second call is answered
\* only after a first one that failed for lack of credits
ReplySeqs ==
    { << r >> : r \in { q \in Replies : q.kind # "error_credits" } }
    \cup { << Reply("error_credits", None), r >> : r \in Replies }

\* the answers the pipeline runs meet: one per extraction outcome
SampleReplySeqs ==
    { << Reply("json", Some(v)) >> : v \in ModelMappings \cup {Scalar} }
    \cup { << Reply("garbage", None) >>,
           << Reply("error_other", None) >>,
           << Reply("error_credits", None),
              Reply("json", Some(Mapping(Str("Acme Co."), Null, Num(150), Str("2025-03-01"), Absent))) >>,
           << Reply("error_credits", None), Reply("error_other", None) >> }

-----------------------------------------------------------------------------
(* InvoiceProcessingOrchestrator.process_invoice (orchestrator.py) *)

StepNames == << "document_ingestion", "extraction", "validation",
                "tool_decision", "database_write" >>

StepSet == { StepNames[i] : i \in 1..Len(StepNames) }

\* a key of pipeline_results["steps"] that has not been created
NoStep == [present |-> FALSE, status |-> "", input |-> None, output |-> None,
           error |-> None, reason |-> None]

\* an entry that does not record what the stage is given
Processing_DropsInput(input) ==
    [present |-> TRUE, status |-> "processing", input |-> None,
     output |-> None, error |-> None, reason |-> None]

\* the entry every stage gets before its agent is called
Processing(input) == [present |-> TRUE, status |-> "processing", input |-> Some(input),
                      output |-> None, error |-> None, reason |-> None]

Finished(step, output, status) == [step EXCEPT !.output = Some(output), !.status = status]

\* a truthiness test in place of the strip() test
NoTextExtracted_Truthiness(text) == text = ""

\* line 66: `if not raw_text.strip()`
NoTextExtracted(text) == Strip(text) = ""

\* line 93
ValidationStepStatus(verdict) == IF verdict.status = "valid" THEN "success" ELSE "failed"

\* line 121
DbStepStatus(db_result) == IF db_result.success THEN "success" ELSE "error"

\* every verdict that is not valid reported as error
OverallStatus_ErrorWhenInvalid(verdict) ==
    IF verdict.status = "valid" THEN "success" ELSE "error"

\* line 130
OverallStatus(verdict) == IF verdict.status = "valid" THEN "success" ELSE "incomplete"

\* lines 123-128
SkippedStep(decision) ==
    [present |-> TRUE, status |-> "skipped", input |-> None, output |-> None,
     error |-> None, reason |-> Some(decision.reason)]

\* a handler that returns a fresh error result
Caught_DiscardsSteps(results, description) ==
    [steps |-> [name \in {"document_ingestion", "extraction", "validation",
                          "tool_decision", "database_write"} |->
                   [present |-> FALSE, status |-> "", input |-> None, output |-> None,
                    error |-> None, reason |-> None]],
     overall_status |-> Some("error"),
     error |-> Some(description)]

\* lines 132-134: the top-level `except Exception`
Caught(results, description) ==
    [results EXCEPT !.overall_status = Some("error"), !.error = Some(description)]

Call(op, data) == [op |-> op, data |-> data]

\* lines 46-58
StartRun(path) ==
    /\ entry = "script"
    /\ pc = "idle"
    /\ uuids < MaxDocs
    /\ Len(dbFile.invoices) < MaxRecords
    /\ file_path' = path
    /\ pipeline_results' =
         [steps |-> [name \in StepSet |->
                        IF name = "document_ingestion" THEN Processing(path) ELSE NoStep],
          overall_status |-> None,
          error |-> None]
    /\ returned' = FALSE
    /\ raw_text' = ""
    /\ extracted_data' = None
    /\ validation_result' = None
    /\ decision_result' = None
    /\ calls' = << >>
    /\ pc' = "ingest"
    /\ UNCHANGED direct
    /\ UNCHANGED << entry, session, ui_outcome, form, dbFile, now, uuids >>

\* lines 60-77
Ingest ==
    /\ pc = "ingest"
    /\ calls' = Append(calls, Call("process", None))
    /\ IF ProcessRaises(file_path)
       THEN /\ pipeline_results' = Caught(pipeline_results, "TypeError")
            /\ returned' = TRUE
            /\ pc' = "idle"
            /\ UNCHANGED << raw_text, uuids >>
       ELSE LET ingestion_result == process(file_path[1], uuids + 1)
                done == Finished(pipeline_results.steps["document_ingestion"],
                                 ingestion_result, "success")
            IN  /\ uuids' = uuids + 1
                /\ raw_text' = ingestion_result.raw_text
                /\ IF NoTextExtracted(ingestion_result.raw_text)
                   THEN /\ pipeline_results' =
                             [pipeline_results EXCEPT !.steps["document_ingestion"] =
                                 [done EXCEPT !.status = "error",
                                              !.error = Some("No text extracted from document")]]
                        /\ returned' = TRUE
                        /\ pc' = "idle"
                   ELSE /\ pipeline_results' =
                             [pipeline_results EXCEPT
                                 !.steps["document_ingestion"] = done,
                                 !.steps["extraction"] = Processing(ingestion_result.raw_text)]
                        /\ returned' = FALSE
                        /\ pc' = "extract"
    /\ UNCHANGED direct
    /\ UNCHANGED << entry, file_path, extracted_data, validation_result, decision_result,
                    session, ui_outcome, form, dbFile, now >>

\* lines 79-89
ExtractStep(replies) ==
    /\ pc = "extract"
    /\ LET data == extract(replies).data
       IN  /\ extracted_data' = Some(data)
           /\ pipeline_results' =
                [pipeline_results EXCEPT
                    !.steps["extraction"] = Finished(@, data, "success"),
                    !.steps["validation"] = Processing(data)]
    /\ calls' = Append(calls, Call("extract", None))
    /\ pc' = "validate"
    /\ UNCHANGED direct
    /\ UNCHANGED << entry, file_path, raw_text, validation_result, decision_result,
                    returned, session, ui_outcome, form, dbFile, now, uuids >>

\* lines 91-104
ValidateStep ==
    /\ pc = "validate"
    /\ calls' = Append(calls, Call("validate", extracted_data))
    /\ IF ValidateRaises(extracted_data[1])
       THEN /\ pipeline_results' = Caught(pipeline_results, "TypeError")
            /\ returned' = TRUE
            /\ pc' = "idle"
            /\ UNCHANGED validation_result
       ELSE LET verdict == validate(extracted_data[1])
            IN  /\ validation_result' = Some(verdict)
                /\ pipeline_results' =
                     [pipeline_results EXCEPT
                         !.steps["validation"] =
                             Finished(@, verdict, ValidationStepStatus(verdict)),
                         !.steps["tool_decision"] =
                             Processing([validation_status |-> verdict.status,
                                         extracted_data |-> extracted_data[1]])]
                /\ pc' = "decide"
                /\ UNCHANGED returned
    /\ UNCHANGED direct
    /\ UNCHANGED << entry, file_path, raw_text, extracted_data, decision_result,
                    session, ui_outcome, form, dbFile, now, uuids >>

\* lines 106-117 and 122-136
DecideStep ==
    /\ pc = "decide"
    /\ calls' = Append(calls, Call("decide", extracted_data))
    /\ LET decision == decide(validation_result[1], extracted_data[1])
       IN  /\ decision_result' = Some(decision)
           /\ IF decision.should_write
              THEN /\ pipeline_results' =
                        [pipeline_results EXCEPT
                            !.steps["tool_decision"] = Finished(@, decision, "success"),
                            !.steps["database_write"] = Processing(decision.data_to_write[1])]
                   /\ pc' = "write"
                   /\ UNCHANGED returned
              ELSE /\ pipeline_results' =
                        [pipeline_results EXCEPT
                            !.steps["tool_decision"] = Finished(@, decision, "success"),
                            !.steps["database_write"] = SkippedStep(decision),
                            !.overall_status = Some(OverallStatus(validation_result[1]))]
                   /\ returned' = TRUE
                   /\ pc' = "idle"
    /\ UNCHANGED direct
    /\ UNCHANGED << entry, file_path, raw_text, extracted_data, validation_result,
                    session, ui_outcome, form, dbFile, now, uuids >>

\* lines 119-121 and 130-136
WriteStep(io) ==
    /\ pc = "write"
    /\ calls' = Append(calls, Call("write", decision_result[1].data_to_write))
    /\ LET db == write_invoice_to_db(decision_result[1].data_to_write[1], dbFile, now + 1, io)
       IN  /\ dbFile' = db.file
           /\ pipeline_results' =
                [pipeline_results EXCEPT
                    !.steps["database_write"] = Finished(@, db.result, DbStepStatus(db.result)),
                    !.overall_status = Some(OverallStatus(validation_result[1]))]
    /\ now' = now + 1
    /\ returned' = TRUE
    /\ pc' = "idle"
    /\ UNCHANGED direct
    /\ UNCHANGED << entry, file_path, raw_text, extracted_data, validation_result,
                    decision_result, session, ui_outcome, form, uuids >>

-----------------------------------------------------------------------------
(* The UI (app.py) *)

\* lines 96-104
InitSession == [ingestion_result |-> None, extraction_result |-> None,
                processing_complete |-> FALSE, final_results |-> None]

\* line 225: `if ingest_res.get("raw_text")`
UiHasText(ingest_res) == ingest_res.raw_text # ""

\* the form test with `not` dropped
FormShown_NegationDropped ==
    /\ session.extraction_result # None
    /\ session.extraction_result[1].shape = "dict"
    /\ session.processing_complete

\* the form withheld from a mapping that carries an error marker
FormShown_HidesErrors ==
    /\ session.extraction_result # None
    /\ session.extraction_result[1].shape = "dict"
    /\ session.extraction_result[1].error.type = "absent"
    /\ ~session.processing_complete

\* lines 248-250: the verification form is on screen
FormShown ==
    /\ session.extraction_result # None
    /\ session.extraction_result[1].shape = "dict"
    /\ ~session.processing_complete

\* lines 259-263: the values the four text inputs start with
FormDefaults(raw_data) ==
    [biller  |-> PyStr(PyOr(Get(raw_data, "biller_name"), Str(""))),
     amount  |-> PyStr(PyOr(Get(raw_data, "total_amount"), Str(""))),
     address |-> PyStr(PyOr(Get(raw_data, "biller_address"), Str(""))),
     date    |-> PyStr(PyOr(Get(raw_data, "due_date"), Str("")))]

\* what the reviewer may type over a default
TypedBillers == {"Acme Co."}
TypedAmounts == {"150", "abc", "None"}
TypedDates == {"2025-03-01"}

\* the reviewer's input: per text input, None (left as shown) or a typed text
Edits ==
    [biller : {None} \cup {Some(t) : t \in TypedBillers},
     amount : {None} \cup {Some(t) : t \in TypedAmounts},
     date   : {None} \cup {Some(t) : t \in TypedDates}]

NoEdits == [biller |-> None, amount |-> None, date |-> None]

\* the four texts the form holds when it is submitted
Submitted(raw_data, edits) ==
    [biller  |-> IF edits.biller = None THEN FormDefaults(raw_data).biller ELSE edits.biller[1],
     amount  |-> IF edits.amount = None THEN FormDefaults(raw_data).amount ELSE edits.amount[1],
     address |-> FormDefaults(raw_data).address,
     date    |-> IF edits.date = None THEN FormDefaults(raw_data).date ELSE edits.date[1]]

\* line 272: float(amount) raises ValueError
AmountRaises(submitted) ==
    /\ submitted.amount # ""
    /\ submitted.amount # "None"
    /\ ~PyFloat(Str(submitted.amount)).ok

\* lines 269-274
EditedData(submitted) ==
    Mapping(Str(submitted.biller),
            Str(submitted.address),
            IF submitted.amount # "" /\ submitted.amount # "None"
            THEN PyFloat(Str(submitted.amount)).val
            ELSE Num(0),
            Str(submitted.date),
            Absent)

\* lines 219-232, and the rendering of the rerun
Analyze(doc, replies) ==
    /\ entry = "ui"
    /\ uuids < MaxDocs
    /\ Len(dbFile.invoices) < MaxRecords
    /\ uuids' = uuids + 1
    /\ \E ingest_res \in {process(doc, uuids + 1)}, extract_res \in {extract(replies).data} :
           IF UiHasText(ingest_res)
           THEN /\ session' = [session EXCEPT !.ingestion_result = Some(ingest_res),
                                              !.extraction_result = Some(extract_res),
                                              !.processing_complete = FALSE]
                /\ calls' = << Call("process", None), Call("extract", None) >>
                /\ ui_outcome' = IF extract_res.shape = "dict" THEN "paused" ELSE "render_exception"
           ELSE /\ session' = [session EXCEPT !.ingestion_result = Some(ingest_res)]
                /\ calls' = << Call("process", None) >>
                /\ ui_outcome' = "no_text"
    /\ form' = None
    /\ UNCHANGED direct
    /\ UNCHANGED << entry, pc, file_path, raw_text, extracted_data, validation_result,
                    decision_result, pipeline_results, returned, dbFile, now >>

\* lines 265-294
Approve(edits, io) ==
    /\ entry = "ui"
    /\ FormShown
    /\ \E submitted \in {Submitted(session.extraction_result[1], edits)} :
       \E edited_data \in {EditedData(submitted)} :
       \E val_res \in {validate(edited_data)} :
       \E dec_res \in {decide(val_res, edited_data)} :
          \* the file system answers only when the sink is called
          /\ (AmountRaises(submitted) \/ ~dec_res.should_write) => io = "ok"
          /\ form' = Some([submitted |-> submitted, edits |-> edits])
          /\ IF AmountRaises(submitted)
             THEN /\ ui_outcome' = "approve_exception"
                  /\ UNCHANGED << session, calls, dbFile, now >>
             ELSE /\ \E db \in {write_invoice_to_db(edited_data, dbFile, now + 1, io)} :
                        /\ IF dec_res.should_write
                           THEN /\ dbFile' = db.file
                                /\ now' = now + 1
                                /\ calls' = calls \o
                                      << Call("validate", Some(edited_data)),
                                         Call("decide", Some(edited_data)),
                                         Call("write", dec_res.data_to_write) >>
                           ELSE /\ calls' = calls \o
                                      << Call("validate", Some(edited_data)),
                                         Call("decide", Some(edited_data)) >>
                                /\ UNCHANGED << dbFile, now >>
                        /\ session' = [session EXCEPT
                                          !.final_results =
                                              Some([validation |-> val_res,
                                                    decision |-> dec_res,
                                                    db |-> IF dec_res.should_write
                                                           THEN Some(db.result) ELSE None]),
                                          !.processing_complete = TRUE]
                  /\ ui_outcome' = "completed"
    /\ UNCHANGED direct
    /\ UNCHANGED << entry, pc, file_path, raw_text, extracted_data, validation_result,
                    decision_result, pipeline_results, returned, uuids >>

\* lines 179-181: "Reset System"
Reset ==
    /\ entry = "ui"
    /\ session' = InitSession
    /\ ui_outcome' = "idle"
    /\ form' = None
    /\ calls' = << >>
    /\ UNCHANGED direct
    /\ UNCHANGED << entry, pc, file_path, raw_text, extracted_data, validation_result,
                    decision_result, pipeline_results, returned, dbFile, now, uuids >>

-----------------------------------------------------------------------------
(* Specification *)

\* no process_invoice call and no UI handler has run
NotRunning ==
    /\ pc = "idle"
    /\ file_path = None
    /\ raw_text = ""
    /\ extracted_data = None
    /\ validation_result = None
    /\ decision_result = None
    /\ pipeline_results = [steps |-> [name \in StepSet |-> NoStep],
                           overall_status |-> None, error |-> None]
    /\ returned = FALSE
    /\ session = InitSession
    /\ ui_outcome = "idle"
    /\ form = None
    /\ calls = << >>
    /\ uuids = 0

Init ==
    /\ entry \in {"script", "ui"}
    /\ NotRunning
    /\ dbFile = EmptyDb
    /\ now = 0
    /\ given = None
    /\ history = << >>
    /\ writer = << >>

Next ==
    \/ \E path \in Paths : StartRun(path)
    \/ Ingest
    \/ \E replies \in SampleReplySeqs : ExtractStep(replies)
    \/ ValidateStep
    \/ DecideStep
    \/ \E io \in IoOutcomes : WriteStep(io)
    \/ \E doc \in SampleDocs, replies \in SampleReplySeqs : Analyze(doc, replies)
    \/ \E edits \in Edits, io \in IoOutcomes : Approve(edits, io)
    \/ Reset

Spec == Init /\ [][Next]_vars

-----------------------------------------------------------------------------
(* Direct calls to ValidationAgent.validate and ToolDecisionAgent.decide.  *)
(* A caller holds a Field Mapping and calls the two agents on it, on        *)
(* mappings that differ from it in biller_address only, and on the         *)
(* extractor's failure value.                                              *)

\* a caller makes at most MaxCalls calls
MaxCalls == 3

NameValues == {Absent, Null, Str("Acme Co."), Str("")}
AddressValues == {Absent, Null, Str("1 Main St")}
AmountValues == {Absent, Null, Num(150), Num(0), Num(-5), NaN, Str("150"), Str("abc")}
DateValues == {Absent, Null, Str("2025-03-01"), Str("not-a-date")}

FieldMappings ==
    { Mapping(name, address, amount, date, Absent) :
        name \in NameValues, address \in AddressValues,
        amount \in AmountValues, date \in DateValues }

\* the mappings a caller starts with; the address varies from call to call
GivenMappings == { d \in FieldMappings : d.biller_address = Null }

AddressVariants(d) == { [d EXCEPT !.biller_address = a] : a \in AddressValues }

\* verdicts a caller may hand to decide besides the validator's own
Verdicts ==
    { [status |-> "valid", errors |-> << >>],
      [status |-> "incomplete", errors |-> << "Missing required field: biller_name" >>],
      [status |-> "error", errors |-> << >>] }

\* one direct call: the argument, the argument after the call, the verdict
\* (returned by validate, or passed to decide) and the decision
AgentCall(op, input, after, verdict, decision) ==
    [op |-> op, input |-> input, after |-> after, verdict |-> verdict, decision |-> decision]

\* validate(extracted_data) reads extracted_data and assigns to nothing but
\* its local errors list
CallValidate(d) ==
    /\ entry = "agents"
    /\ Len(history) < MaxCalls
    /\ history' = Append(history, AgentCall("validate", d, d, Some(validate(d)), None))
    /\ UNCHANGED << entry, pc, file_path, raw_text, extracted_data, validation_result,
                    decision_result, pipeline_results, returned, session, ui_outcome,
                    form, calls, dbFile, now, uuids, given, writer >>

\* decide(validation_result, extracted_data)
CallDecide(verdict) ==
    /\ entry = "agents"
    /\ Len(history) < MaxCalls
    /\ history' = Append(history, AgentCall("decide", given, given, Some(verdict),
                                            Some(decide(verdict, given))))
    /\ UNCHANGED << entry, pc, file_path, raw_text, extracted_data, validation_result,
                    decision_result, pipeline_results, returned, session, ui_outcome,
                    form, calls, dbFile, now, uuids, given, writer >>

AgentInit ==
    /\ entry = "agents"
    /\ NotRunning
    /\ dbFile = EmptyDb
    /\ now = 0
    /\ given \in GivenMappings
    /\ history = << >>
    /\ writer = << >>

\* what the caller validates
Validated(d) == AddressVariants(d) \cup {ErrorMapping("Failed to parse JSON")}

AgentNext ==
    \/ \E d \in Validated(given) : CallValidate(d)
    \/ \E verdict \in Verdicts \cup {validate(given)} : CallDecide(verdict)

AgentSpec == AgentInit /\ [][AgentNext]_vars

-----------------------------------------------------------------------------
(* Direct calls to DatabaseTool.write_invoice_to_db, one after the other,  *)
(* on one invoices_db.json.                                                *)

\* at most MaxWrites calls are made to the store
MaxWrites == 3

\* the mappings written
StoreMappings ==
    { Mapping(Str("Acme Co."), Null, Num(150), Str("2025-03-01"), Absent),
      Mapping(Str("Bolt Ltd"), Str("1 Main St"), Str("150"), Null, Absent) }

\* the arguments of the direct calls: a mapping, or a value that is no mapping
StoreInputs == StoreMappings \cup {Scalar}

\* one call: its argument, the file before and after it, the clock value it
\* read, and how it ended
StoreCall(input, before, at, db) ==
    [op |-> "write", input |-> input, before |-> before, after |-> db.file,
     at |-> at, result |-> db.result, raised |-> db.raised]

\* lines 25-64
CallWrite(d, io) ==
    /\ entry = "store"
    /\ Len(history) < MaxWrites
    /\ \E db \in {write_invoice_to_db(d, dbFile, now + 1, io)} :
          /\ dbFile' = db.file
          /\ history' = Append(history, StoreCall(d, dbFile, now + 1, db))
    /\ now' = now + 1
    /\ UNCHANGED << entry, pc, file_path, raw_text, extracted_data, validation_result,
                    decision_result, pipeline_results, returned, session, ui_outcome,
                    form, calls, uuids, given, writer >>

StoreInit ==
    /\ entry = "store"
    /\ NotRunning
    /\ dbFile = EmptyDb
    /\ now = 0
    /\ given = None
    /\ history = << >>
    /\ writer = << >>

StoreNext == \E d \in StoreInputs, io \in IoOutcomes : CallWrite(d, io)

StoreSpec == StoreInit /\ [][StoreNext]_vars

-----------------------------------------------------------------------------
(* Calls to write_invoice_to_db from several UI sessions at once: every    *)
(* session runs the script in its own thread on the same invoices_db.json. *)
(* A call is two steps, the load (with the building of the record) and the *)
(* rewrite of the file; the rewrite of the file is taken as one step.      *)

Writers == {"a", "b"}

\* the locals of a call that is not in progress
IdleWriter == [pc |-> "idle", invoice_data |-> None, invoices |-> << >>,
               invoice_record |-> None]

\* calls begun so far
Begun == Len(history) + Cardinality({ w \in DOMAIN writer : writer[w].pc # "idle" })

\* one returned call: who made it, its argument, the record it built (if it
\* got that far) and the returned dictionary
Returned(w, input, record, result) ==
    [op |-> "write", by |-> w, input |-> input, record |-> record, result |-> result]

\* lines 35-48: load, build the record, append it to the loaded list
BeginWrite(w, d, io) ==
    /\ entry = "sessions"
    /\ writer[w].pc = "idle"
    /\ Begun < MaxWrites
    /\ io \in {"ok", "load_error"}
    /\ IF DbFault(d, io) # "none"
       THEN /\ history' = Append(history, Returned(w, d, None, DbFailure))
            /\ UNCHANGED writer
       ELSE /\ \E invoices \in {_load_invoices(dbFile)} :
               \E invoice_record \in {InvoiceRecord(d, invoices, now + 1)} :
                  writer' = [writer EXCEPT ![w] =
                                [pc |-> "loaded", invoice_data |-> Some(d),
                                 invoices |-> Append(invoices, invoice_record),
                                 invoice_record |-> Some(invoice_record)]]
            /\ UNCHANGED history
    /\ now' = now + 1
    /\ UNCHANGED << entry, pc, file_path, raw_text, extracted_data, validation_result,
                    decision_result, pipeline_results, returned, session, ui_outcome,
                    form, calls, dbFile, uuids, given >>

\* lines 50-64: _save_invoices and the return
FinishWrite(w, io) ==
    /\ entry = "sessions"
    /\ writer[w].pc = "loaded"
    /\ io \in {"ok", "save_open_error", "save_write_error"}
    /\ dbFile' = CASE io = "ok" -> _save_invoices(writer[w].invoices)
                   [] io = "save_write_error" -> TruncatedDb
                   [] OTHER -> dbFile
    /\ history' = Append(history,
                     Returned(w, writer[w].invoice_data[1], writer[w].invoice_record,
                              IF io = "ok"
                              THEN [success |-> TRUE,
                                    message |-> "Invoice successfully written to database",
                                    invoice_id |-> Some(writer[w].invoice_record[1].id)]
                              ELSE DbFailure))
    /\ writer' = [writer EXCEPT ![w] = IdleWriter]
    /\ UNCHANGED << entry, pc, file_path, raw_text, extracted_data, validation_result,
                    decision_result, pipeline_results, returned, session, ui_outcome,
                    form, calls, now, uuids, given >>

SessionsInit ==
    /\ entry = "sessions"
    /\ NotRunning
    /\ dbFile = EmptyDb
    /\ now = 0
    /\ given = None
    /\ history = << >>
    /\ writer = [w \in Writers |-> IdleWriter]

SessionsNext ==
    \/ \E w \in Writers, d \in StoreMappings, io \in IoOutcomes : BeginWrite(w, d, io)
    \/ \E w \in Writers, io \in IoOutcomes : FinishWrite(w, io)

SessionsSpec == SessionsInit /\ [][SessionsNext]_vars

-----------------------------------------------------------------------------
(* Direct calls to ExtractionAgent.extract.  The caller's environment is   *)
(* what the model answers: the answer to the first call and the answer the *)
(* fallback model gives if it is asked.                                    *)

ReplyPairs == { << first, second >> : first \in Replies, second \in Replies }

\* one call: the answers it met and what it returned
ExtractCall(replies, out) ==
    [op |-> "extract", replies |-> replies, data |-> out.data,
     llm_calls |-> out.llm_calls, raised |-> out.raised]

\* lines 50-128
CallExtract ==
    /\ entry = "extractor"
    /\ history = << >>
    /\ history' = << ExtractCall(given, extract(given)) >>
    /\ UNCHANGED << entry, pc, file_path, raw_text, extracted_data, validation_result,
                    decision_result, pipeline_results, returned, session, ui_outcome,
                    form, calls, dbFile, now, uuids, given, writer >>

ExtractorInit ==
    /\ entry = "extractor"
    /\ NotRunning
    /\ dbFile = EmptyDb
    /\ now = 0
    /\ given \in ReplyPairs
    /\ history = << >>
    /\ writer = << >>

ExtractorNext == CallExtract

ExtractorSpec == ExtractorInit /\ [][ExtractorNext]_vars

-----------------------------------------------------------------------------
(* Direct calls to DocumentIngestionAgent.process *)

\* the strategies one process call runs, in order
Strategies(doc) ==
    IF Lower(doc.suffix) = ".pdf" THEN PdfExtraction(doc).tried ELSE << "ocr" >>

\* one call: the document, the returned dictionary and the strategies run
ProcessCall(doc, result, tried) ==
    [op |-> "process", doc |-> doc, result |-> result, tried |-> tried]

\* lines 137-163
CallProcess(doc) ==
    /\ entry = "ingestion"
    /\ Len(history) < MaxCalls
    /\ history' = Append(history, ProcessCall(doc, process(doc, uuids + 1), Strategies(doc)))
    /\ uuids' = uuids + 1
    /\ UNCHANGED << entry, pc, file_path, raw_text, extracted_data, validation_result,
                    decision_result, pipeline_results, returned, session, ui_outcome,
                    form, calls, dbFile, now, given, writer >>

IngestionInit ==
    /\ entry = "ingestion"
    /\ NotRunning
    /\ dbFile = EmptyDb
    /\ now = 0
    /\ given = None
    /\ history = << >>
    /\ writer = << >>

IngestionNext == \E doc \in Docs : CallProcess(doc)

IngestionSpec == IngestionInit /\ [][IngestionNext]_vars

-----------------------------------------------------------------------------
(* Properties *)

Steps == pipeline_results.steps

Present(name) == Steps[name].present

\* the text holds no non-whitespace character
Blank(text) == text \in {"", " "}

\* the calls of the current run to the three stages that follow the review
ResumeCalls == SelectSeq(calls, LAMBDA c : c.op \in {"validate", "decide", "write"})

Ops(cs) == [i \in 1..Len(cs) |-> cs[i].op]

\* C1: in process_invoice, once ingestion has returned a raw_text that is
\* empty or whitespace-only, the run has ended at document_ingestion with
\* status error, no later step is in the result and no later agent was called.
C1_BlankTextShortCircuits ==
    (/\ entry = "script"
     /\ Steps["document_ingestion"].output # None
     /\ Blank(Steps["document_ingestion"].output[1].raw_text))
    => /\ returned
       /\ pc = "idle"
       /\ Steps["document_ingestion"].status = "error"
       /\ \A name \in StepSet \ {"document_ingestion"} : ~Present(name)
       /\ Ops(calls) = << "process" >>

C1_Witness ==
    /\ entry = "script"
    /\ returned
    /\ Steps["document_ingestion"].output # None
    /\ Steps["document_ingestion"].output[1].raw_text = " "
    /\ Steps["document_ingestion"].status = "error"

\* C2: every result process_invoice returns carries an overall_status that
\* is one of success, incomplete, error; on the whitespace-only
\* short-circuit it is error.
C2_EveryResultHasOverallStatus ==
    (entry = "script" /\ returned)
    => /\ pipeline_results.overall_status
            \in {Some("success"), Some("incomplete"), Some("error")}
       /\ (/\ Steps["document_ingestion"].output # None
           /\ Blank(Steps["document_ingestion"].output[1].raw_text))
          => pipeline_results.overall_status = Some("error")

\* the amount is a number greater than zero
StrictlyPositive(v) ==
    /\ PyFloat(v).ok
    /\ PyFloat(v).val.type = "number"
    /\ PyFloat(v).val.n > 0

\* C3: the sink is called only with a mapping whose verdict, computed in the
\* same run, is valid; every stored record has a non-null biller_name and a
\* strictly positive total_amount; a process_invoice run whose verdict is
\* incomplete has database_write skipped.
C3_OnlyValidRecordsStored ==
    /\ \A i \in 1..Len(calls) :
          calls[i].op = "write"
          => /\ i > 2
             /\ calls[i - 2].op = "validate"
             /\ calls[i - 2].data = calls[i].data
             /\ validate(calls[i].data[1]).status = "valid"
    /\ \A i \in 1..Len(dbFile.invoices) :
          /\ dbFile.invoices[i].biller_name.type \notin {"NoneType", "absent"}
          /\ StrictlyPositive(dbFile.invoices[i].total_amount)
    /\ (/\ entry = "script"
        /\ returned
        /\ validation_result # None
        /\ validation_result[1].status = "incomplete")
       => /\ Steps["database_write"].status = "skipped"
          /\ \A i \in 1..Len(calls) : calls[i].op # "write"

\* a stage that follows the review has been called in the current run
PastReview == Len(ResumeCalls) > 0

\* a separate approval has been submitted for the current run
Resumed == entry = "ui" /\ form # None

\* C4 (as stated): after extraction the run pauses; validation, decision and
\* persistence do not run until a separate resume call supplies the mapping.
C4_NoStagePastReviewWithoutResume ==
    PastReview => Resumed

\* C4 (amended): the pause belongs to the UI.  There the analysis ends with
\* only the ingestion and extraction calls made and the verification form on
\* screen, and validation, decision and persistence run only in a completed
\* approval; process_invoice does not pause: a result it returns after a
\* successful extraction already holds the validation step.
C4_PauseInUiOnly ==
    /\ (entry = "ui" /\ ui_outcome = "paused")
       => /\ Ops(calls) = << "process", "extract" >>
          /\ FormShown
          /\ form = None
    /\ (entry = "ui" /\ PastReview)
       => /\ Resumed
          /\ ui_outcome = "completed"
          /\ session.processing_complete
    /\ (entry = "script" /\ returned /\ Steps["extraction"].output # None)
       => /\ Present("validation")
          /\ PastReview

C4_Witness ==
    /\ entry = "ui"
    /\ ui_outcome = "paused"
    /\ session.ingestion_result # None
    /\ session.extraction_result # None
    /\ ~PastReview

\* C5: the stages after the review run as validation, then decision, then
\* persistence, persistence only if should_write; every persistence call is
\* preceded by a validation call on the same mapping that found it valid,
\* which in the UI is the mapping built from the approved form, and a
\* completed approval has run validation and decision.
C5_ResumeOrder ==
    /\ Ops(ResumeCalls) \in { << >>, << "validate" >>, << "validate", "decide" >>,
                              << "validate", "decide", "write" >> }
    /\ \A i \in 1..Len(ResumeCalls) : ResumeCalls[i].data = ResumeCalls[1].data
    /\ Len(ResumeCalls) = 3 => validate(ResumeCalls[1].data[1]).status = "valid"
    /\ (entry = "ui" /\ PastReview)
       => ResumeCalls[1].data = Some(EditedData(form[1].submitted))
    /\ (entry = "ui" /\ ui_outcome = "completed")
       => /\ Len(ResumeCalls) >= 2
          /\ Len(ResumeCalls) = 3 <=> session.final_results[1].decision.should_write
          /\ session.final_results[1].validation = validate(ResumeCalls[1].data[1])
    /\ (entry = "script" /\ returned /\ Present("database_write"))
       => /\ Len(ResumeCalls) >= 2
          /\ Len(ResumeCalls) = 3 <=> decision_result[1].should_write

C5_Witness ==
    /\ entry = "ui"
    /\ ui_outcome = "completed"
    /\ Ops(ResumeCalls) = << "validate", "decide", "write" >>
    /\ form[1].edits # NoEdits

\* C6: in a returned result overall_status is success exactly when the
\* verdict is valid and incomplete exactly when it is incomplete, whatever
\* the sink answered; when the sink answers success = false the
\* database_write step has status error and overall_status is still success.
C6_OverallStatusFollowsVerdict ==
    (entry = "script" /\ returned)
    => /\ pipeline_results.overall_status = Some("success")
          <=> (Steps["validation"].output # None
               /\ Steps["validation"].output[1].status = "valid")
       /\ pipeline_results.overall_status = Some("incomplete")
          <=> (Steps["validation"].output # None
               /\ Steps["validation"].output[1].status = "incomplete")
       /\ (Steps["database_write"].output # None
           /\ ~Steps["database_write"].output[1].success)
          => /\ Steps["database_write"].status = "error"
             /\ pipeline_results.overall_status = Some("success")
       /\ (Steps["database_write"].output # None
           /\ Steps["database_write"].output[1].success)
          => Steps["database_write"].status = "success"

C6_Witness ==
    /\ entry = "script"
    /\ returned
    /\ Steps["database_write"].output # None
    /\ ~Steps["database_write"].output[1].success
    /\ pipeline_results.overall_status = Some("success")

\* the mapping is the extractor's failure value: an error marker, four nulls
ErrorMarked(d) ==
    /\ d.shape = "dict"
    /\ d.error.type = "str"
    /\ \A k \in FieldKeys : d[k] = Null

\* C7: an extraction failure does not end the run with overall_status =
\* error.  In the UI the analysis that got an error-marked mapping is paused
\* with the verification form on screen until an approval is submitted; in process_invoice the run goes on
\* to validation and does not return error.
C7_ExtractionFailureGoesOn ==
    /\ (/\ entry = "ui"
        /\ Ops(calls) = << "process", "extract" >>
        /\ form = None
        /\ ErrorMarked(session.extraction_result[1]))
       => /\ ui_outcome = "paused"
          /\ FormShown
    /\ (/\ entry = "script"
        /\ Steps["extraction"].output # None
        /\ ErrorMarked(Steps["extraction"].output[1]))
       => /\ Present("validation")
          /\ pipeline_results.overall_status # Some("error")
          /\ returned => pipeline_results.overall_status = Some("incomplete")

C7_Witness ==
    /\ entry = "ui"
    /\ Ops(calls) = << "process", "extract" >>
    /\ ErrorMarked(session.extraction_result[1])
    /\ ui_outcome = "paused"

\* C8: when a stage raises inside process_invoice the call still returns:
\* the result has overall_status = error and the fault description, and it
\* holds the entry of every stage called so far, with the output of every
\* stage that completed.
C8_FaultKeepsStepHistory ==
    (entry = "script" /\ pipeline_results.error # None)
    => /\ returned
       /\ pc = "idle"
       /\ pipeline_results.overall_status = Some("error")
       /\ Len(calls) >= 1
       /\ \A i \in 1..Len(calls) :
             /\ Present(StepNames[i])
             /\ i < Len(calls) => /\ Steps[StepNames[i]].output # None
                                  /\ Steps[StepNames[i]].status = "success"

C8_Witness ==
    /\ entry = "script"
    /\ returned
    /\ pipeline_results.error # None
    /\ Steps["extraction"].output # None
    /\ Present("validation")

\* C9: an approval never ends in an uncaught exception: whatever the
\* reviewer submitted, the handler ends with the structured results stored.
C9_ResumeNeverFaults ==
    Resumed
    => /\ ui_outcome = "completed"
       /\ session.final_results # None

\* C10: when the form is approved as shown, the mapping passed to validation
\* has the four fields of the extractor's mapping and the verdict is the
\* verdict of the extractor's mapping.
C10_UneditedApprovalPassesExtraction ==
    (/\ entry = "ui"
     /\ ui_outcome = "completed"
     /\ form[1].edits = NoEdits)
    => /\ Fields(ResumeCalls[1].data[1]) = Fields(session.extraction_result[1])
       /\ session.final_results[1].validation = validate(session.extraction_result[1])

-----------------------------------------------------------------------------
(* Properties of the direct calls to the validator and the decision agent *)

\* the direct validate calls made so far
ValidateCalls == SelectSeq(history, LAMBDA c : c.op = "validate")

\* the direct decide calls made so far
DecideCalls == SelectSeq(history, LAMBDA c : c.op = "decide")

MissingOrNull(v) == v.type \in {"absent", "NoneType"}

\* a number, or a decimal numeral, greater than zero
PositiveNumeral(v) ==
    \/ v.type = "number" /\ v.n > 0
    \/ v.type = "str" /\ v.s \in Numerals /\ NumeralValue(v.s) > 0

\* float() accepts the value
Coercible(v) ==
    \/ v.type \in {"number", "nan"}
    \/ v.type = "str" /\ v.s \in Numerals \cup {"nan"}

ParseableDate(v) == v.type = "str" /\ v.s \in ParseableDates

Acceptable(d) ==
    /\ ~MissingOrNull(d.biller_name)
    /\ PositiveNumeral(d.total_amount)
    /\ MissingOrNull(d.due_date) \/ ParseableDate(d.due_date)

SameButAddress(d, e) == [d EXCEPT !.biller_address = Null] = [e EXCEPT !.biller_address = Null]

\* C11: every validate call on a mapping with a non-null biller_name, a
\* positive numeral as total_amount and a due_date that is absent, null or a
\* parseable date returns status valid with no errors; two calls on mappings
\* that differ in biller_address only return the same verdict.
C11_AcceptableMappingIsValid ==
    /\ \A i \in 1..Len(ValidateCalls) :
          Acceptable(ValidateCalls[i].input)
          => ValidateCalls[i].verdict = Some([status |-> "valid", errors |-> << >>])
    /\ \A i, j \in 1..Len(ValidateCalls) :
          SameButAddress(ValidateCalls[i].input, ValidateCalls[j].input)
          => ValidateCalls[i].verdict = ValidateCalls[j].verdict

C11_Witness ==
    \E i, j \in 1..Len(ValidateCalls) :
       /\ Acceptable(ValidateCalls[i].input)
       /\ ValidateCalls[i].input.due_date = Absent
       /\ ValidateCalls[i].input.biller_address = Absent
       /\ ValidateCalls[j].input.biller_address = Str("1 Main St")
       /\ ValidateCalls[i].verdict[1].status = "valid"
       /\ ValidateCalls[j].verdict[1].status = "valid"

\* the errors the rules ask for, in the order of the rules
ExpectedErrors(d) ==
    (IF MissingOrNull(d.biller_name)
     THEN << "Missing required field: biller_name" >> ELSE << >>)
    \o (IF MissingOrNull(d.total_amount)
        THEN << "Missing required field: total_amount" >> ELSE << >>)
    \o (IF MissingOrNull(d.total_amount) \/ PositiveNumeral(d.total_amount)
        THEN << >>
        ELSE IF Coercible(d.total_amount)
             THEN << "total_amount must be a positive number" >>
             ELSE << "total_amount must be a valid number" >>)
    \o (IF MissingOrNull(d.due_date) \/ ParseableDate(d.due_date)
        THEN << >>
        ELSE << "due_date must be a valid date format" >>)

\* C12: every validate call on a mapping that breaks a rule (biller_name
\* missing; total_amount missing, not a number or not positive; due_date
\* non-null and unparseable) returns status incomplete with exactly one error
\* per broken rule, all of them, in the order required fields, amount value,
\* due date.
C12_OneErrorPerViolatedRule ==
    \A i \in 1..Len(ValidateCalls) :
       ~Acceptable(ValidateCalls[i].input)
       => ValidateCalls[i].verdict =
             Some([status |-> "incomplete", errors |-> ExpectedErrors(ValidateCalls[i].input)])

\* C13: in every verdict validate returns, status is valid or incomplete, and
\* it is valid exactly when errors is empty.
C13_ValidIffNoErrors ==
    \A i \in 1..Len(ValidateCalls) :
       /\ ValidateCalls[i].verdict[1].status \in {"valid", "incomplete"}
       /\ ValidateCalls[i].verdict[1].status = "valid"
          <=> ValidateCalls[i].verdict[1].errors = << >>

C13_Witness ==
    \E i, j \in 1..Len(ValidateCalls) :
       /\ ValidateCalls[i].verdict[1].status = "valid"
       /\ ValidateCalls[j].verdict[1].status = "incomplete"
       /\ Len(ValidateCalls[j].verdict[1].errors) = 2

C15_DecisionFollowsVerdict ==
    /\ \A i \in 1..Len(DecideCalls) :
          LET c == DecideCalls[i]
          IN  /\ c.verdict[1].status = "valid"
                 => /\ c.decision[1].should_write
                    /\ c.decision[1].data_to_write = Some(c.input)
              /\ c.verdict[1].status # "valid"
                 => /\ ~c.decision[1].should_write
                    /\ c.decision[1].data_to_write = None
              /\ c.after = c.input
    /\ \A i, j \in 1..Len(DecideCalls) :
          (DecideCalls[i].verdict = DecideCalls[j].verdict
           /\ DecideCalls[i].input = DecideCalls[j].input)
          => DecideCalls[i].decision = DecideCalls[j].decision

C15_Witness ==
    \E i, j, k \in 1..Len(DecideCalls) :
       /\ i < j
       /\ DecideCalls[i].verdict[1].status = "valid"
       /\ DecideCalls[i].decision[1].should_write
       /\ DecideCalls[j].verdict = DecideCalls[i].verdict
       /\ DecideCalls[k].verdict[1].status = "error"
       /\ ~DecideCalls[k].decision[1].should_write

-----------------------------------------------------------------------------
(* Properties of the store *)

\* the records the next load of the file yields
StoredRecords(file) == IF file.corrupt THEN << >> ELSE file.invoices

\* the direct calls that returned success = TRUE
SuccessfulWrites == SelectSeq(history, LAMBDA c : c.result.success)

\* C16: a write_invoice_to_db call that fails, at the load, at the building
\* of the record or in the rewrite of the file, leaves the store as it was:
\* the next load yields the records it yielded before the call.
C16_FailedWriteKeepsStore ==
    \A i \in 1..Len(history) :
       ~history[i].result.success
       => StoredRecords(history[i].after) = StoredRecords(history[i].before)

\* C17: over calls made one after the other, the k-th successful write
\* returns the identifier k: the first one gets 1, identifiers grow strictly,
\* and a failed write in between does not advance them.
C17_IdsFollowSuccessfulWrites ==
    \A k \in 1..Len(SuccessfulWrites) :
       SuccessfulWrites[k].result.invoice_id = Some(k)

\* C18: when the calls of two sessions overlap and every call returned
\* success, the file holds the record of every call and no two calls
\* returned the same identifier.
C18_ConcurrentWritesSerialized ==
    (\A i \in 1..Len(history) : history[i].result.success)
    => /\ \A i, j \in 1..Len(history) :
             i # j => history[i].result.invoice_id # history[j].result.invoice_id
       /\ \A i \in 1..Len(history) :
             \E k \in 1..Len(dbFile.invoices) : dbFile.invoices[k] = history[i].record[1]

\* the record a successful call appends
AppendedRecord(c) ==
    [biller_name |-> c.input.biller_name,
     biller_address |-> c.input.biller_address,
     total_amount |-> c.input.total_amount,
     due_date |-> c.input.due_date,
     error |-> c.input.error,
     id |-> Len(StoredRecords(c.before)) + 1,
     created_at |-> c.at,
     status |-> "stored"]

\* C19: after a successful write the file holds the records the store held
\* before the call, unchanged and in the same order, followed by one record:
\* the fields of the argument with id, created_at and status = stored.
C19_AppendOnly ==
    \A i \in 1..Len(history) :
       history[i].result.success
       => /\ ~history[i].after.corrupt
          /\ history[i].after.invoices =
                Append(StoredRecords(history[i].before), AppendedRecord(history[i]))

C19_Witness ==
    \E i \in 1..Len(history) :
       /\ history[i].result.success
       /\ Len(StoredRecords(history[i].before)) = 2
       /\ Len(history[i].after.invoices) = 3

\* C20: no write_invoice_to_db call ends in an exception.  A call that
\* failed returns success = FALSE, the diagnostic message and no identifier;
\* a call that succeeded returns success = TRUE and the id of the record it
\* appended.
C20_WriteNeverRaises ==
    \A i \in 1..Len(history) :
       /\ ~history[i].raised
       /\ ~history[i].result.success
          => history[i].result = [success |-> FALSE,
                                  message |-> "Error writing to database",
                                  invoice_id |-> None]
       /\ history[i].result.success
          => /\ history[i].result.message = "Invoice successfully written to database"
             /\ history[i].result.invoice_id # None
             /\ history[i].result.invoice_id[1]
                   = history[i].after.invoices[Len(history[i].after.invoices)].id

C20_Witness ==
    \E i, j, k \in 1..Len(history) :
       /\ history[i].input = Scalar
       /\ ~history[i].result.success
       /\ history[j].input # Scalar
       /\ history[j].after = TruncatedDb
       /\ ~history[j].result.success
       /\ history[k].result.success
       /\ history[k].result.invoice_id = Some(1)

-----------------------------------------------------------------------------
(* Properties of the field extractor *)

\* the value has the declared shape: a mapping with the four keys, each
\* null or a value, and at most an error string besides
DeclaredShape(d) ==
    /\ d.shape = "dict"
    /\ \A k \in FieldKeys : d[k].type # "absent"
    /\ d.error.type \in {"absent", "str"}

\* no model call of the invocation delivered JSON: the call or the parsing
\* of the first answer failed and, where the fallback model was asked, its
\* call or the parsing of its answer failed too
ExtractionFailed(replies) ==
    \/ replies[1].kind \in {"wrapped_bad", "garbage", "no_content", "error_other"}
    \/ replies[1].kind = "error_credits" /\ replies[2].kind # "json"

\* C21: every value extract returns is a mapping with the four keys
\* biller_name, biller_address, total_amount, due_date, optionally with an
\* error string; nothing else is handed on.
C21_ExtractReturnsDeclaredShape ==
    \A i \in 1..Len(history) : DeclaredShape(history[i].data)

-----------------------------------------------------------------------------
(* Properties of the text extractor *)

Ran(c, strategy) == \E k \in 1..Len(c.tried) : c.tried[k] = strategy

IsPdf(doc) == doc.suffix \in {".pdf", ".PDF"}

\* C24: for a PDF the text layer is read first, and recognition runs exactly
\* when the text layer gave no non-whitespace text or could not be read, as
\* the last strategy; a PDF whose text layer has text is never recognized.
C24_OcrOnlyWithoutTextLayer ==
    \A i \in 1..Len(history) :
       IsPdf(history[i].doc)
       => /\ history[i].tried[1] = "PyMuPDF"
          /\ Ran(history[i], "ocr") <=> history[i].doc.text_layer \in {"blank", "unreadable"}
          /\ Ran(history[i], "ocr") => history[i].tried[Len(history[i].tried)] = "ocr"
          /\ history[i].doc.text_layer \in {"text", "text_second"}
             => history[i].result.raw_text = InvoiceText

C24_Witness ==
    \E i, j, k \in 1..Len(history) :
       /\ history[i].doc = Document(".pdf", "blank", "text")
       /\ Ran(history[i], "ocr")
       /\ history[i].result.raw_text = InvoiceText
       /\ history[j].doc.text_layer = "text"
       /\ ~Ran(history[j], "ocr")
       /\ history[k].doc.text_layer = "unreadable"
       /\ Ran(history[k], "ocr")

\* C29: source_type is pdf exactly when the suffix is .pdf in any case and
\* image otherwise; two documents with the same suffix get the same
\* source_type whatever text was got out of them.
C29_SourceTypeFollowsSuffix ==
    /\ \A i \in 1..Len(history) :
          /\ history[i].result.source_type \in {"pdf", "image"}
          /\ history[i].result.source_type = "pdf" <=> IsPdf(history[i].doc)
    /\ \A i, j \in 1..Len(history) :
          history[i].doc.suffix = history[j].doc.suffix
          => history[i].result.source_type = history[j].result.source_type

C29_Witness ==
    \E i, j, k \in 1..Len(history) :
       /\ history[i].doc.suffix = ".PDF"
       /\ history[i].result.source_type = "pdf"
       /\ history[j].doc.suffix = ".pdf"
       /\ history[k].doc.suffix = ".pdf"
       /\ history[j].result.raw_text = InvoiceText
       /\ history[k].result.raw_text = "No OCR engine available."
       /\ history[j].result.source_type = history[k].result.source_type

-----------------------------------------------------------------------------
(* Properties of the sequencing of one run *)

StageOrder == << "process", "extract", "validate", "decide", "write" >>

Diagnostics ==
    { "No OCR engine available.",
      "Tesseract OCR is not installed or not in PATH.",
      "[No text extracted from image]" }

\* C25: a process_invoice run whose ingestion returned a failure diagnostic
\* in place of document text ends at document_ingestion with status error,
\* and the field extractor is not called on the diagnostic.
C25_DiagnosticShortCircuits ==
    (/\ entry = "script"
     /\ Steps["document_ingestion"].output # None
     /\ Steps["document_ingestion"].output[1].raw_text \in Diagnostics)
    => /\ returned
       /\ Steps["document_ingestion"].status = "error"
       /\ ~Present("extraction")
       /\ Ops(calls) = << "process" >>

\* the field extractor was called in the analysis of the document ingested last
ExtractedFromLatest == \E i \in 1..Len(calls) : calls[i].op = "extract"

\* C26: in the UI the mapping under review, and any record stored on its
\* approval, comes from the document ingested last: while the form is on
\* screen the extraction it shows was made in the analysis of that document,
\* and the sink is called only in a run that extracted from it.
C26_ReviewIsOfLatestDocument ==
    entry = "ui"
    => /\ FormShown => ExtractedFromLatest
       /\ (\E i \in 1..Len(calls) : calls[i].op = "write") => ExtractedFromLatest

\* C27: both entry paths go on to field extraction exactly when the
\* ingested raw_text has a non-whitespace character: the UI analysis calls
\* extract, and process_invoice enters the extraction stage, in that case
\* and in no other.
C27_SameShortCircuitInBothPaths ==
    /\ (entry = "ui" /\ ui_outcome \in {"paused", "render_exception", "no_text"})
       => (ExtractedFromLatest <=> ~Blank(session.ingestion_result[1].raw_text))
    /\ (entry = "script" /\ Steps["document_ingestion"].output # None)
       => (Present("extraction")
           <=> ~Blank(Steps["document_ingestion"].output[1].raw_text))

\* C28: in every result process_invoice returns, also after a caught fault,
\* every step entry present has one of the statuses success, failed, error,
\* skipped; none is left at processing.
C28_NoStepLeftProcessing ==
    (entry = "script" /\ returned)
    => \A name \in StepSet :
          Present(name) => Steps[name].status \in {"success", "failed", "error", "skipped"}

====
